---------------------------- MODULE Spec2Model ----------------------------
(***************************************************************************)
(* Model of the md:: signal-processing classes: SignalProcessor, Filter,   *)
(* FirFilter, IirFilter and Window.                                        *)
(*                                                                         *)
(* One processor object is modelled at a time.  `kind` is its dynamic type *)
(* and Size, NumB, NumA are its template arguments; `obj` holds its data   *)
(* members.  std::array<T, N> is a function on 0..N-1.  A caller's sample  *)
(* buffer is a sequence: signal[i] of the code is signal[i+1] here.        *)
(*                                                                         *)
(* The floating-point type T is modelled in fixed point: the real number v *)
(* is the integer v * Scale.  Every sample the caller supplies is a whole  *)
(* number, so every product the filters form has a whole-number operand    *)
(* and Mul is exact; only the design routines round (Div, SinTable).       *)
(*                                                                         *)
(* Spec covers a FirFilter, an IirFilter with NumB, NumA >= 1 and a        *)
(* Window; SpecNoFeedback covers an IirFilter with NumA = 0, where         *)
(* processing a sample has undefined behaviour: a process call then either *)
(* returns its result or stops the program (call.status = "crash").        *)
(***************************************************************************)
EXTENDS Integers, Sequences, FiniteSets, TLC

VARIABLES
    kind,   \* the object's class: "FIR", "IIR" or "Window"
    Size,   \* template argument Size of SignalProcessor<T, Size>
    NumB,   \* template arguments of IirFilter<T, NumB, NumA> (0 otherwise)
    NumA,
    obj,    \* the object's data members
    count,  \* samples processed since construction or the last reset()
    xs,     \* the most recent inputs since then, newest last (at most Size)
    ys,     \* the most recent outputs since then, newest last (at most NumA)
    changes,\* calls since then that set the coefficients (filters only)
    call    \* the last member call: its name and its outcome

vars == <<kind, Size, NumB, NumA, obj, count, xs, ys, changes, call>>

(***************************************************************************)
(* Bounds of the model.                                                    *)
(***************************************************************************)
\* longest buffer handed to one Filter::process call
MaxLen == 2
\* most samples processed between two resets
MaxTotal == 4
\* most calls that set the coefficients of a filter between two resets
MaxChange == 2

(***************************************************************************)
(* The type T in fixed point.                                              *)
(***************************************************************************)
Scale == 10000

Num(k) == k * Scale

Abs(a) == IF a < 0 THEN -a ELSE a

\* a * b of two T values: the whole and the fractional part of a, each times b
Mul(a, b) == (a \div Scale) * b + ((a % Scale) * b) \div Scale

\* a / b of two T values, rounded to nearest
Div(a, b) ==
    LET q == (2 * Abs(a) * Scale + Abs(b)) \div (2 * Abs(b))
    IN  IF (a < 0) = (b < 0) THEN q ELSE -q

\* the template arguments Size the classes are instantiated with (for an
\* IirFilter, Size = NumB + NumA)
Sizes == 1..3

\* the sample values callers supply
Samples == {Num(0), Num(1)}

\* the coefficient values callers supply to setFactors / setCoefficients
CoefVals == {Num(-1), Num(2)}

Array(n, S) == [0..(n - 1) -> S]

Fill(n, v) == [i \in 0..(n - 1) |-> v]

SeqsUpTo(n, S) == UNION {[1..m -> S] : m \in 0..n}

\* a T* argument: the null pointer, or a pointer to the caller's buffer `at`
NULL == [null |-> TRUE, at |-> <<>>]

Ptr(buffer) == [null |-> FALSE, at |-> buffer]

(***************************************************************************)
(* SignalProcessor                                                         *)
(***************************************************************************)
\* SignalProcessor(): m_factors.fill(0.0)
SignalProcessorCtor(n) == [m_factors |-> Fill(n, Num(0))]

\* SetFactors that also rewinds the head index of a FirFilter
SetFactorsRewind(f, factors) ==
    IF kind = "FIR"
    THEN [f EXCEPT !.m_factors = factors, !.m_head = 0]
    ELSE [f EXCEPT !.m_factors = factors]

\* setFactors(factors): m_factors = factors
SetFactors(f, factors) == [f EXCEPT !.m_factors = factors]

\* getFactors() const: the object, as it was, and the returned copy of m_factors
GetFactors(f) == [obj |-> f, result |-> f.m_factors]

(***************************************************************************)
(* FirFilter                                                               *)
(***************************************************************************)
\* FirAccumulate with the read index stuck at 0 instead of wrapping to Size - 1
RECURSIVE FirAccumulateNoWrap(_, _, _, _, _)
FirAccumulateNoWrap(buffer, factors, i, bufferIdx, output) ==
    IF i < Size
    THEN FirAccumulateNoWrap(buffer, factors, i + 1,
                             IF bufferIdx = 0 THEN 0 ELSE bufferIdx - 1,
                             output + Mul(buffer[bufferIdx], factors[i]))
    ELSE output

\* the loop of FirFilter::processSample, from iteration i on
RECURSIVE FirAccumulate(_, _, _, _, _)
FirAccumulate(buffer, factors, i, bufferIdx, output) ==
    IF i < Size
    THEN FirAccumulate(buffer, factors, i + 1,
                       IF bufferIdx = 0 THEN Size - 1 ELSE bufferIdx - 1,
                       output + Mul(buffer[bufferIdx], factors[i]))
    ELSE output

\* the pairs <<bufferIdx, i>> of m_buffer and m_factors indices that the loop
\* of FirFilter::processSample uses from iteration i on, added to `used`
RECURSIVE FirIndices(_, _, _)
FirIndices(i, bufferIdx, used) ==
    IF i < Size
    THEN FirIndices(i + 1,
                    IF bufferIdx = 0 THEN Size - 1 ELSE bufferIdx - 1,
                    used \cup {<<bufferIdx, i>>})
    ELSE used

\* FirProcessSample that wraps the head only once it has passed Size
FirProcessSampleLateWrap(f, input) ==
    LET buffer == [f.m_buffer EXCEPT ![f.m_head] = input]
        output == FirAccumulate(buffer, f.m_factors, 0, f.m_head, Num(0))
        head   == f.m_head + 1
    IN  [obj    |-> [f EXCEPT !.m_buffer = buffer,
                              !.m_head = IF head > Size THEN 0 ELSE head],
         output |-> output]

\* FirFilter::processSample(input): the object after the call and the result
FirProcessSample(f, input) ==
    LET buffer == [f.m_buffer EXCEPT ![f.m_head] = input]
        output == FirAccumulate(buffer, f.m_factors, 0, f.m_head, Num(0))
        head   == f.m_head + 1
    IN  [obj    |-> [f EXCEPT !.m_buffer = buffer,
                              !.m_head = IF head >= Size THEN 0 ELSE head],
         output |-> output]

\* FirReset that forgets m_head = 0
FirResetKeepHead(f) == [f EXCEPT !.m_buffer = Fill(Size, Num(0))]

\* FirFilter::reset(): m_buffer.fill(0.0); m_head = 0
FirReset(f) == [f EXCEPT !.m_buffer = Fill(Size, Num(0)), !.m_head = 0]

\* FirFilter(): the base constructor, the member initialiser m_head = 0,
\* then reset(); m_buffer holds indeterminate values `garbage` until reset()
FirFilterCtor(garbage) ==
    FirReset([m_factors |-> SignalProcessorCtor(Size).m_factors,
              m_buffer  |-> garbage,
              m_head    |-> 0])

\* FirCopy that leaves m_head at its member initialiser 0
FirCopyNoHead(other) ==
    [m_factors |-> other.m_factors, m_buffer |-> other.m_buffer, m_head |-> 0]

\* FirFilter(const FirFilter& other): m_buffer, m_head and m_factors assigned
\* from other
FirCopy(other) ==
    [m_factors |-> other.m_factors,
     m_buffer  |-> other.m_buffer,
     m_head    |-> other.m_head]

\* FirFilter::operator==(other)
FirEquals(f, other) ==
    f.m_buffer = other.m_buffer /\ f.m_head = other.m_head /\ f.m_factors = other.m_factors

\* the design routines take freq = k / FreqDen
FreqDen == 8
Freq(k) == (k * Scale) \div FreqDen

\* the cutoff arguments callers supply, as multiples of 1 / FreqDen: from
\* below 0 to above 0.5
FreqArgs == -1..5

\* M_PI
Pi == 31416

\* std::sin(m * M_PI / FreqDen) for m in 0..4
SinTable == <<0, 3827, 7071, 9239, 10000>>

\* std::sin(m * M_PI / FreqDen) for any integer m
Sin(m) ==
    LET r == m % (2 * FreqDen)
        h == IF r >= FreqDen THEN r - FreqDen ELSE r
        q == IF 2 * h > FreqDen THEN FreqDen - h ELSE h
    IN  IF r >= FreqDen THEN -SinTable[q + 1] ELSE SinTable[q + 1]

\* the tap h that setupLowPass computes at index i for freq = k / FreqDen;
\* d is 2 * (n - center), so that i == center is d = 0
LowPassTap(k, i) ==
    LET d == 2 * i - (Size - 1)
    IN  IF d = 0
        THEN 2 * Freq(k)
        ELSE Div(Sin(k * d), (Pi * d) \div 2)

\* the first loop of setupLowPass, from index i on: the taps and their sum
RECURSIVE LowPassTaps(_, _, _, _)
LowPassTaps(factors, k, i, sum) ==
    IF i < Size
    THEN LowPassTaps([factors EXCEPT ![i] = LowPassTap(k, i)], k, i + 1,
                     sum + LowPassTap(k, i))
    ELSE [factors |-> factors, sum |-> sum]

\* the second loop of setupLowPass: m_factors[i] /= sum
LowPassNormalize(factors, sum) == [i \in 0..(Size - 1) |-> Div(factors[i], sum)]

\* FirSetupLowPass that accepts the cutoff 0.5
FirSetupLowPassAcceptHalf(f, k) ==
    IF Freq(k) <= 0 \/ 2 * Freq(k) > Scale
    THEN [obj |-> f, status |-> "invalid_argument"]
    ELSE LET t == LowPassTaps(f.m_factors, k, 0, Num(0))
         IN  [obj    |-> [f EXCEPT !.m_factors = LowPassNormalize(t.factors, t.sum)],
              status |-> "ok"]

\* FirFilter::setupLowPass(freq), freq = k / FreqDen
FirSetupLowPass(f, k) ==
    IF Freq(k) <= 0 \/ 2 * Freq(k) >= Scale
    THEN [obj |-> f, status |-> "invalid_argument"]
    ELSE LET t == LowPassTaps(f.m_factors, k, 0, Num(0))
         IN  [obj    |-> [f EXCEPT !.m_factors = LowPassNormalize(t.factors, t.sum)],
              status |-> "ok"]

\* FirSetupHighPass that adds 1 at tap Size / 2, the upper of the two middle
\* taps when Size is even
FirSetupHighPassUpperCenter(f, k) ==
    LET low     == FirSetupLowPass(f, k)
        negated == [i \in 0..(Size - 1) |-> -low.obj.m_factors[i]]
        center  == Size \div 2
    IN  IF low.status # "ok"
        THEN low
        ELSE [obj    |-> [low.obj EXCEPT !.m_factors =
                              [negated EXCEPT ![center] = negated[center] + Num(1)]],
              status |-> "ok"]

\* FirFilter::setupHighPass(freq)
FirSetupHighPass(f, k) ==
    LET low     == FirSetupLowPass(f, k)
        negated == [i \in 0..(Size - 1) |-> -low.obj.m_factors[i]]
        center  == (Size - 1) \div 2
    IN  IF low.status # "ok"
        THEN low
        ELSE [obj    |-> [low.obj EXCEPT !.m_factors =
                              [negated EXCEPT ![center] = negated[center] + Num(1)]],
              status |-> "ok"]

\* FirSetupBandPass with the difference taken the other way round
FirSetupBandPassSwapped(f, kLow, kHigh) ==
    LET high == FirSetupLowPass(f, kHigh)
        low  == FirSetupLowPass(high.obj, kLow)
    IN  IF Freq(kLow) >= Freq(kHigh)
        THEN [obj |-> f, status |-> "invalid_argument"]
        ELSE IF high.status # "ok"
        THEN high
        ELSE IF low.status # "ok"
        THEN low
        ELSE [obj    |-> [low.obj EXCEPT !.m_factors =
                              [i \in 0..(Size - 1) |->
                                  low.obj.m_factors[i] - high.obj.m_factors[i]]],
              status |-> "ok"]

\* FirFilter::setupBandPass(freqLow, freqHigh)
FirSetupBandPass(f, kLow, kHigh) ==
    LET high        == FirSetupLowPass(f, kHigh)
        highFactors == high.obj.m_factors
        low         == FirSetupLowPass(high.obj, kLow)
    IN  IF Freq(kLow) >= Freq(kHigh)
        THEN [obj |-> f, status |-> "invalid_argument"]
        ELSE IF high.status # "ok"
        THEN high
        ELSE IF low.status # "ok"
        THEN low
        ELSE [obj    |-> [low.obj EXCEPT !.m_factors =
                              [i \in 0..(Size - 1) |-> highFactors[i] - low.obj.m_factors[i]]],
              status |-> "ok"]

(***************************************************************************)
(* IirFilter                                                               *)
(***************************************************************************)
\* the largest size_t value; the largest integer TLC holds stands for
\* 2^64 - 1, of which only SIZE_MAX > Size matters
SIZE_MAX == 2147483647

\* an integer n >= -SIZE_MAX converted to size_t: n modulo SIZE_MAX + 1
SizeT(n) == IF n < 0 THEN SIZE_MAX + (n + 1) ELSE n

\* the first index outside 0..n-1 at which the loop
\* for (size_t i = n - 1; i > 0; i--) buff[i] = buff[i - 1] accesses its array
\* of n elements from index i on, or -1 when every access is in bounds
RECURSIVE IirShiftOutOfBounds(_, _)
IirShiftOutOfBounds(n, i) ==
    IF i > 0
    THEN IF i >= n THEN i ELSE IirShiftOutOfBounds(n, i - 1)
    ELSE -1

\* the shift loop over an array of n elements stays within the array
IirShiftDefined(n) == IirShiftOutOfBounds(n, SizeT(n - 1)) = -1

\* for (size_t i = N - 1; i > 0; i--) buff[i] = buff[i - 1], from index i on
RECURSIVE IirShift(_, _)
IirShift(buff, i) ==
    IF i > 0 THEN IirShift([buff EXCEPT ![i] = buff[i - 1]], i - 1) ELSE buff

\* the whole shift loop over an array of n elements, i starting at the size_t
\* value n - 1.  A loop that leaves the array has undefined behaviour: this is
\* its outcome in a build that drops the accesses; the other outcome, the
\* process stopping at the access, is chosen in FilterProcessed.
IirShiftOrSkip(buff, n) ==
    IF IirShiftDefined(n) THEN IirShift(buff, SizeT(n - 1)) ELSE buff

\* for (size_t i = 0; i < num; i++) acc += m_factors[offset + i] * buff[i],
\* from index i on
RECURSIVE IirAccumulate(_, _, _, _, _, _)
IirAccumulate(factors, offset, buff, i, num, acc) ==
    IF i < num
    THEN IirAccumulate(factors, offset, buff, i + 1, num,
                       acc + Mul(factors[offset + i], buff[i]))
    ELSE acc

\* IirProcessSample with the feedback sum added instead of subtracted
IirProcessSampleAddFeedback(f, input) ==
    LET inBuff      == [IirShiftOrSkip(f.m_inBuff, NumB) EXCEPT ![0] = input]
        feedforward == IirAccumulate(f.m_factors, 0, inBuff, 0, NumB, Num(0))
        feedback    == IirAccumulate(f.m_factors, NumB, f.m_outBuff, 0, NumA, Num(0))
        output      == feedforward + feedback
        shifted     == IirShiftOrSkip(f.m_outBuff, NumA)
        outBuff     == IF NumA > 0 THEN [shifted EXCEPT ![0] = output] ELSE shifted
    IN  [obj    |-> [f EXCEPT !.m_inBuff = inBuff, !.m_outBuff = outBuff],
         output |-> output]

\* IirFilter::processSample(input): the object after the call and the result
IirProcessSample(f, input) ==
    LET inBuff      == [IirShiftOrSkip(f.m_inBuff, NumB) EXCEPT ![0] = input]
        feedforward == IirAccumulate(f.m_factors, 0, inBuff, 0, NumB, Num(0))
        feedback    == IirAccumulate(f.m_factors, NumB, f.m_outBuff, 0, NumA, Num(0))
        output      == feedforward - feedback
        shifted     == IirShiftOrSkip(f.m_outBuff, NumA)
        outBuff     == IF NumA > 0 THEN [shifted EXCEPT ![0] = output] ELSE shifted
    IN  [obj    |-> [f EXCEPT !.m_inBuff = inBuff, !.m_outBuff = outBuff],
         output |-> output]

\* IirFilter::setCoefficients(bFactors, aFactors)
IirSetCoefficients(f, bFactors, aFactors) ==
    [f EXCEPT !.m_factors =
        [i \in 0..(Size - 1) |-> IF i < NumB THEN bFactors[i] ELSE aFactors[i - NumB]]]

\* IirReset that clears the histories only, as FirFilter::reset() does
IirResetKeepFactors(f) ==
    [f EXCEPT !.m_inBuff  = Fill(NumB, Num(0)),
              !.m_outBuff = Fill(NumA, Num(0))]

\* IirFilter::reset(): both histories and m_factors filled with 0.0
IirReset(f) ==
    [f EXCEPT !.m_inBuff  = Fill(NumB, Num(0)),
              !.m_outBuff = Fill(NumA, Num(0)),
              !.m_factors = Fill(Size, Num(0))]

\* IirFilter(): the base constructor, then reset(); the histories hold
\* indeterminate values until reset()
IirFilterCtor(garbageIn, garbageOut) ==
    IirReset([m_factors |-> SignalProcessorCtor(Size).m_factors,
              m_inBuff  |-> garbageIn,
              m_outBuff |-> garbageOut])

\* IirFilter(const IirFilter& other): both histories and m_factors assigned
\* from other
IirCopy(other) ==
    [m_factors |-> other.m_factors,
     m_inBuff  |-> other.m_inBuff,
     m_outBuff |-> other.m_outBuff]

\* IirFilter::operator==(other)
IirEquals(f, other) ==
    f.m_inBuff = other.m_inBuff /\ f.m_outBuff = other.m_outBuff
        /\ f.m_factors = other.m_factors

(***************************************************************************)
(* Filter                                                                  *)
(***************************************************************************)
\* the virtual call processSample(input)
ProcessSample(f, input) ==
    IF kind = "FIR" THEN FirProcessSample(f, input) ELSE IirProcessSample(f, input)

\* the loop of Filter::process(T*, size_t), from index i on
RECURSIVE ProcessLoop(_, _, _, _)
ProcessLoop(f, signal, i, length) ==
    IF i < length
    THEN LET r == ProcessSample(f, signal.at[i + 1])
         IN  ProcessLoop(r.obj, Ptr([signal.at EXCEPT ![i + 1] = r.output]), i + 1, length)
    ELSE [obj |-> f, signal |-> signal, status |-> "ok"]

\* FilterProcess that filters the samples but does not keep the filter state
FilterProcessStateless(f, signal, length) ==
    IF signal = NULL \/ length = 0
    THEN [obj |-> f, signal |-> signal, status |-> "invalid_argument"]
    ELSE [ProcessLoop(f, signal, 0, length) EXCEPT !.obj = f]

\* FilterProcess without the test length == 0
FilterProcessNoLengthCheck(f, signal, length) ==
    IF signal = NULL
    THEN [obj |-> f, signal |-> signal, status |-> "invalid_argument"]
    ELSE ProcessLoop(f, signal, 0, length)

\* Filter::process(T* signal, size_t length)
FilterProcess(f, signal, length) ==
    IF signal = NULL \/ length = 0
    THEN [obj |-> f, signal |-> signal, status |-> "invalid_argument"]
    ELSE ProcessLoop(f, signal, 0, length)

\* ContainerLoop with `auto sample` for `auto& sample`: results are not stored
RECURSIVE ContainerLoopByValue(_, _, _)
ContainerLoopByValue(f, signal, i) ==
    IF i <= Len(signal)
    THEN ContainerLoopByValue(ProcessSample(f, signal[i]).obj, signal, i + 1)
    ELSE [obj |-> f, signal |-> Ptr(signal), status |-> "ok"]

\* the range-based for loop of Filter::process(Container&), from position i on
RECURSIVE ContainerLoop(_, _, _)
ContainerLoop(f, signal, i) ==
    IF i <= Len(signal)
    THEN LET r == ProcessSample(f, signal[i])
         IN  ContainerLoop(r.obj, [signal EXCEPT ![i] = r.output], i + 1)
    ELSE [obj |-> f, signal |-> Ptr(signal), status |-> "ok"]

\* Filter::process(Container& signal)
FilterProcessContainer(f, signal) == ContainerLoop(f, signal, 1)

(***************************************************************************)
(* Window                                                                  *)
(***************************************************************************)
\* WindowLoop that scales every sample by m_factors[0]
RECURSIVE WindowLoopFirstFactor(_, _, _, _)
WindowLoopFirstFactor(f, signal, i, length) ==
    IF i < length
    THEN WindowLoopFirstFactor(
             f, Ptr([signal.at EXCEPT ![i + 1] = Mul(signal.at[i + 1], f.m_factors[0])]),
             i + 1, length)
    ELSE [obj |-> f, signal |-> signal, status |-> "ok"]

\* the loop of Window::process, from index i on
RECURSIVE WindowLoop(_, _, _, _)
WindowLoop(f, signal, i, length) ==
    IF i < length
    THEN WindowLoop(f, Ptr([signal.at EXCEPT ![i + 1] = Mul(signal.at[i + 1], f.m_factors[i])]),
                    i + 1, length)
    ELSE [obj |-> f, signal |-> signal, status |-> "ok"]

\* WindowProcess that rejects only buffers longer than Size
WindowProcessAcceptShorter(f, signal, length) ==
    IF signal = NULL \/ length > Size
    THEN [obj |-> f, signal |-> signal, status |-> "invalid_argument"]
    ELSE WindowLoop(f, signal, 0, length)

\* Window::process(T* signal, size_t length)
WindowProcess(f, signal, length) ==
    IF signal = NULL \/ length # Size
    THEN [obj |-> f, signal |-> signal, status |-> "invalid_argument"]
    ELSE WindowLoop(f, signal, 0, length)

\* Window::setupRectangular(): m_factors.fill(1.0)
WindowSetupRectangular(f) == [f EXCEPT !.m_factors = Fill(Size, Num(1))]

\* std::cos((turns * M_PI * n) / N), with turns = 2.0 or 4.0: the cosine is
\* the sine a quarter turn on.  The angle is a whole multiple of
\* M_PI / FreqDen for every N that divides turns * FreqDen, as N = Size - 1
\* does for the Sizes of the model.
WindowCos(turns, n, N) == Sin((turns * FreqDen * n) \div N + FreqDen \div 2)

\* Window::setupHamming(): 0.54 - 0.46 * cos(2 pi i / (Size - 1)) at index i;
\* returns without writing when Size <= 1
WindowSetupHamming(f) ==
    IF Size <= 1
    THEN f
    ELSE [f EXCEPT !.m_factors =
             [i \in 0..(Size - 1) |->
                 (54 * Scale) \div 100
                     - Mul((46 * Scale) \div 100, WindowCos(2, i, Size - 1))]]

\* Window::setupHann(): 0.5 * (1.0 - cos(2 pi i / (Size - 1))) at index i;
\* returns without writing when Size <= 1
WindowSetupHann(f) ==
    IF Size <= 1
    THEN f
    ELSE [f EXCEPT !.m_factors =
             [i \in 0..(Size - 1) |->
                 Mul((5 * Scale) \div 10, Num(1) - WindowCos(2, i, Size - 1))]]

\* Window::setupBlackman(): 0.42 - 0.5 * term1 + 0.08 * term2 at index i,
\* term1 = cos(2 pi i / (Size - 1)), term2 = cos(4 pi i / (Size - 1));
\* returns without writing when Size <= 1
WindowSetupBlackman(f) ==
    IF Size <= 1
    THEN f
    ELSE [f EXCEPT !.m_factors =
             [i \in 0..(Size - 1) |->
                 (42 * Scale) \div 100
                     - Mul((5 * Scale) \div 10, WindowCos(2, i, Size - 1))
                     + Mul((8 * Scale) \div 100, WindowCos(4, i, Size - 1))]]

\* WindowCtor that runs the base constructor only
WindowCtorBaseOnly == SignalProcessorCtor(Size)

\* Window(): the base constructor, then setupRectangular()
WindowCtor == WindowSetupRectangular(SignalProcessorCtor(Size))

\* Window(const Window& other): m_factors assigned from other
WindowCopy(other) == [m_factors |-> other.m_factors]

(***************************************************************************)
(* The state machine                                                       *)
(***************************************************************************)
\* the copy constructor of the object's class
Copy(other) ==
    CASE kind = "FIR" -> FirCopy(other)
      [] kind = "IIR" -> IirCopy(other)
      [] kind = "Window" -> WindowCopy(other)

\* operator== of a filter's class
Equals(f, other) ==
    IF kind = "FIR" THEN FirEquals(f, other) ELSE IirEquals(f, other)

NoCall == [op |-> "construct", status |-> "ok"]

Called(op) == [NoCall EXCEPT !.op = op]

InitFir ==
    /\ kind = "FIR"
    /\ Size \in Sizes
    /\ NumB = 0
    /\ NumA = 0
    /\ \E g \in Samples : obj = FirFilterCtor(Fill(Size, g))

InitIir ==
    /\ kind = "IIR"
    /\ Size \in Sizes
    /\ NumB \in 1..(Size - 1)
    /\ NumA = Size - NumB
    /\ \E g \in Samples : obj = IirFilterCtor(Fill(NumB, g), Fill(NumA, g))

InitWindow ==
    /\ kind = "Window"
    /\ Size \in Sizes
    /\ NumB = 0
    /\ NumA = 0
    /\ obj = WindowCtor

Init ==
    /\ InitFir \/ InitIir \/ InitWindow
    /\ count = 0
    /\ xs = <<>>
    /\ ys = <<>>
    /\ changes = 0
    /\ call = NoCall

\* the last k entries of sequence s
Last(s, k) == IF Len(s) <= k THEN s ELSE SubSeq(s, Len(s) - k + 1, Len(s))

\* the arguments of a call process(signal, length): a null pointer with a
\* length, or a pointer to a buffer of exactly `length` samples
ProcessArgs(buffers) ==
    {[signal |-> NULL, length |-> k] : k \in 0..1}
        \cup {[signal |-> Ptr(b), length |-> Len(b)] : b \in buffers}

\* the buffers the filter may be given next: at most MaxLen samples, and at
\* most MaxTotal samples since the last reset
Inputs == {b \in SeqsUpTo(MaxLen, Samples) : count + Len(b) <= MaxTotal}

\* the buffers a Window may be given: up to one sample more than Size
WindowInputs == SeqsUpTo(Size + 1, Samples)

\* the number of past inputs a filter's output depends on
Depth == IF kind = "IIR" THEN NumB ELSE Size

\* the program is running: no call has stopped it
Running == call.status # "crash"

\* processing a sample has undefined behaviour in this instantiation: a shift
\* loop of IirFilter::processSample leaves its array
ProcessSampleUndefined ==
    kind = "IIR" /\ ~(IirShiftDefined(NumB) /\ IirShiftDefined(NumA))

\* the outcomes of a process call on object f for which the operators give r:
\* r itself, and, when a sample was processed with undefined behaviour, also
\* the process stopping at the access outside the array
Outcomes(f, r) ==
    IF r.status = "ok" /\ r.signal.at # <<>> /\ ProcessSampleUndefined
    THEN {r, [r EXCEPT !.obj = f, !.status = "crash"]}
    ELSE {r}

\* the state after a call that sets the coefficients, leaving object f
Changed(f, op, status) ==
    /\ Running
    /\ changes < MaxChange
    /\ obj' = f
    /\ changes' = IF kind = "Window" THEN 0 ELSE changes + 1
    /\ call' = [op |-> op, status |-> status]
    /\ UNCHANGED <<kind, Size, NumB, NumA, count, xs, ys>>

\* the state after a process call on a filter that returned r for input `in`
FilterProcessed(r, in, op) ==
    /\ Running
    /\ obj' = r.obj
    /\ count' = count + (IF r.status = "ok" THEN Len(in.at) ELSE 0)
    /\ xs' = Last(xs \o (IF r.status = "ok" THEN in.at ELSE <<>>), Depth)
    /\ ys' = Last(ys \o (IF r.status = "ok" THEN r.signal.at ELSE <<>>), NumA)
    /\ call' = [op |-> op, status |-> r.status]
    /\ UNCHANGED <<kind, Size, NumB, NumA, changes>>

\* filter.process(signal, length)
DoFilterProcess ==
    /\ kind \in {"FIR", "IIR"}
    /\ \E a \in ProcessArgs(Inputs) :
          \E r \in Outcomes(obj, FilterProcess(obj, a.signal, a.length)) :
              FilterProcessed(r, a.signal, "process")

\* filter.process(container)
DoFilterProcessContainer ==
    /\ kind \in {"FIR", "IIR"}
    /\ \E signal \in Inputs :
          \E r \in Outcomes(obj, FilterProcessContainer(obj, signal)) :
              FilterProcessed(r, Ptr(signal), "processContainer")

\* window.process(signal, length)
DoWindowProcess ==
    /\ kind = "Window"
    /\ \E a \in ProcessArgs(WindowInputs) :
          LET r == WindowProcess(obj, a.signal, a.length)
          IN  /\ obj' = r.obj
              /\ call' = [op |-> "process", status |-> r.status]
    /\ UNCHANGED <<kind, Size, NumB, NumA, count, xs, ys, changes>>

\* window.setupRectangular()
DoWindowSetupRectangular ==
    /\ kind = "Window"
    /\ Changed(WindowSetupRectangular(obj), "setupRectangular", "ok")

\* window.setupHamming()
DoWindowSetupHamming ==
    /\ kind = "Window"
    /\ Changed(WindowSetupHamming(obj), "setupHamming", "ok")

\* window.setupHann()
DoWindowSetupHann ==
    /\ kind = "Window"
    /\ Changed(WindowSetupHann(obj), "setupHann", "ok")

\* window.setupBlackman()
DoWindowSetupBlackman ==
    /\ kind = "Window"
    /\ Changed(WindowSetupBlackman(obj), "setupBlackman", "ok")

\* processor.setFactors(factors)
DoSetFactors ==
    \E factors \in Array(Size, CoefVals) :
        Changed(SetFactors(obj, factors), "setFactors", "ok")

\* iir.setCoefficients(bFactors, aFactors)
DoIirSetCoefficients ==
    /\ kind = "IIR"
    /\ \E bFactors \in Array(NumB, CoefVals), aFactors \in Array(NumA, CoefVals) :
          Changed(IirSetCoefficients(obj, bFactors, aFactors), "setCoefficients", "ok")

\* fir.setupLowPass(freq)
DoFirSetupLowPass ==
    /\ kind = "FIR"
    /\ \E k \in FreqArgs :
          LET r == FirSetupLowPass(obj, k) IN Changed(r.obj, "setupLowPass", r.status)

\* fir.setupHighPass(freq)
DoFirSetupHighPass ==
    /\ kind = "FIR"
    /\ \E k \in FreqArgs :
          LET r == FirSetupHighPass(obj, k) IN Changed(r.obj, "setupHighPass", r.status)

\* fir.setupBandPass(freqLow, freqHigh)
DoFirSetupBandPass ==
    /\ kind = "FIR"
    /\ \E kLow \in FreqArgs, kHigh \in FreqArgs :
          LET r == FirSetupBandPass(obj, kLow, kHigh) IN Changed(r.obj, "setupBandPass", r.status)

\* processor.getFactors()
DoGetFactors ==
    /\ Running
    /\ obj' = GetFactors(obj).obj
    /\ call' = Called("getFactors")
    /\ UNCHANGED <<kind, Size, NumB, NumA, count, xs, ys, changes>>

\* a copy is constructed from the object, and the program goes on with the
\* copy
DoCopy ==
    /\ Running
    /\ obj' = Copy(obj)
    /\ call' = Called("copy")
    /\ UNCHANGED <<kind, Size, NumB, NumA, count, xs, ys, changes>>

\* filter.reset()
DoReset ==
    /\ Running
    /\ kind \in {"FIR", "IIR"}
    /\ obj' = (IF kind = "FIR" THEN FirReset(obj) ELSE IirReset(obj))
    /\ count' = 0
    /\ xs' = <<>>
    /\ ys' = <<>>
    /\ changes' = 0
    /\ call' = Called("reset")
    /\ UNCHANGED <<kind, Size, NumB, NumA>>

Next ==
    \/ DoFilterProcess
    \/ DoFilterProcessContainer
    \/ DoWindowProcess
    \/ DoWindowSetupRectangular
    \/ DoWindowSetupHamming
    \/ DoWindowSetupHann
    \/ DoWindowSetupBlackman
    \/ DoSetFactors
    \/ DoIirSetCoefficients
    \/ DoFirSetupLowPass
    \/ DoFirSetupHighPass
    \/ DoFirSetupBandPass
    \/ DoGetFactors
    \/ DoCopy
    \/ DoReset

Spec == Init /\ [][Next]_vars

(***************************************************************************)
(* An IirFilter<T, NumB, 0>: feedforward coefficients only                 *)
(***************************************************************************)
InitNoFeedback ==
    /\ kind = "IIR"
    /\ Size \in Sizes
    /\ NumB = Size
    /\ NumA = 0
    /\ \E g \in Samples : obj = IirFilterCtor(Fill(NumB, g), Fill(NumA, g))
    /\ count = 0
    /\ xs = <<>>
    /\ ys = <<>>
    /\ changes = 0
    /\ call = NoCall

NextNoFeedback ==
    \/ DoFilterProcess
    \/ DoFilterProcessContainer
    \/ DoSetFactors
    \/ DoIirSetCoefficients
    \/ DoGetFactors
    \/ DoCopy
    \/ DoReset

SpecNoFeedback == InitNoFeedback /\ [][NextNoFeedback]_vars


(***************************************************************************)
(* Notions the properties are stated in                                    *)
(***************************************************************************)
IsFilter == kind \in {"FIR", "IIR"}

\* the non-empty buffers the filter may be given next
Chunks == Inputs \ {<<>>}

\* entry pos of history h, where everything before its start is zero
At(h, pos) == IF pos >= 1 THEN h[pos] ELSE Num(0)

\* the sum of f[i] over i in S
RECURSIVE SumOver(_, _)
SumOver(f, S) ==
    IF S = {} THEN 0
    ELSE LET i == CHOOSE j \in S : TRUE IN f[i] + SumOver(f, S \ {i})

AllZero(a) == \A i \in DOMAIN a : a[i] = Num(0)

\* the direct-form sum of c[i] * x[pos - i] over the taps `taps`
Convolve(c, offset, taps, h, pos) ==
    SumOver([i \in taps |-> Mul(c[offset + i], At(h, pos - i))], taps)

\* the unit impulse of length len
Impulse(len) == [j \in 1..len |-> IF j = 1 THEN Num(1) ELSE Num(0)]

\* filtering the samples of s one after the other, each replaced by its result
RECURSIVE RunSamples(_, _, _)
RunSamples(f, s, out) ==
    IF s = <<>> THEN [obj |-> f, out |-> out]
    ELSE LET r == ProcessSample(f, Head(s))
         IN  RunSamples(r.obj, Tail(s), Append(out, r.output))

(***************************************************************************)
(* C1                                                                      *)
(***************************************************************************)
\* the outputs of process(b) are the convolution of the coefficients with the
\* inputs since the last reset
FirConvolves(b) ==
    LET r == FilterProcess(obj, Ptr(b), Len(b))
        h == xs \o b
    IN  /\ r.status = "ok"
        /\ \A j \in 1..Len(b) :
              r.signal.at[j] = Convolve(obj.m_factors, 0, 0..(Size - 1), h, Len(xs) + j)

\* when the inputs since the last reset and b form a unit impulse, the
\* outputs are the coefficients in order, and zero from position Size on
FirImpulseResponse(b) ==
    LET r == FilterProcess(obj, Ptr(b), Len(b))
    IN  (count = Len(xs) /\ xs \o b = Impulse(count + Len(b))) =>
            \A j \in 1..Len(b) :
                r.signal.at[j] = IF count + j <= Size
                                 THEN obj.m_factors[count + j - 1]
                                 ELSE Num(0)

\* C1: in every state of a FirFilter, after construction or reset() and any
\* process calls, the n-th output of the next process call is the sum over
\* i = 0..Size-1 of c[i] * x[n-i] with x[k] = 0 for k < 0, and a unit impulse
\* yields c[0..Size-1] followed by zeros.
C1_FirConvolution ==
    kind = "FIR" =>
        \A b \in Chunks : FirConvolves(b) /\ FirImpulseResponse(b)

\* a FirFilter with three different coefficients whose head has wrapped and
\* whose history holds a non-zero sample
C1_Witness ==
    /\ kind = "FIR"
    /\ Size = 3
    /\ call = [op |-> "process", status |-> "ok"]
    /\ count > Size
    /\ obj.m_head = 1
    /\ obj.m_factors[0] # obj.m_factors[1]
    /\ obj.m_buffer[2] = Num(1)
    /\ obj.m_buffer[0] = Num(1)

(***************************************************************************)
(* C2                                                                      *)
(***************************************************************************)
\* m_inBuff[i] is x[n-i] and m_outBuff[i] is y[n-i] for histories hx, hy
IirHistoryHolds(f, hx, hy) ==
    /\ \A i \in 0..(NumB - 1) : f.m_inBuff[i] = At(hx, Len(hx) - i)
    /\ \A i \in 0..(NumA - 1) : f.m_outBuff[i] = At(hy, Len(hy) - i)

\* the outputs of process(b) obey the difference equation
IirRecurrence(b) ==
    LET r  == FilterProcess(obj, Ptr(b), Len(b))
        hx == xs \o b
        hy == ys \o r.signal.at
    IN  /\ r.status = "ok"
        /\ \A j \in 1..Len(b) :
              r.signal.at[j] =
                  Convolve(obj.m_factors, 0, 0..(NumB - 1), hx, Len(xs) + j)
                  - Convolve(obj.m_factors, NumB, 0..(NumA - 1), hy, Len(ys) + j - 1)
        /\ IirHistoryHolds(r.obj, hx, hy)

\* setCoefficients(b, a) leaves b followed by a
IirCoefficientLayout ==
    \A bFactors \in Array(NumB, CoefVals), aFactors \in Array(NumA, CoefVals) :
        LET f == IirSetCoefficients(obj, bFactors, aFactors).m_factors
        IN  /\ DOMAIN f = 0..(Size - 1)
            /\ \A i \in 0..(NumB - 1) : f[i] = bFactors[i]
            /\ \A i \in 0..(NumA - 1) : f[NumB + i] = aFactors[i]

\* C2: in every state of an IirFilter the coefficient vector set by
\* setCoefficients(b, a) is b followed by a, the histories hold x[n-i] and
\* y[n-i] at position i, and the n-th output of the next process call is
\* sum b[i]*x[n-i] - sum a[i]*y[n-1-i], with x[k] = y[k] = 0 for k < 0.
C2_IirDifferenceEquation ==
    kind = "IIR" =>
        /\ IirCoefficientLayout
        /\ IirHistoryHolds(obj, xs, ys)
        /\ \A b \in Chunks : IirRecurrence(b)

\* an IirFilter configured once by setCoefficients whose feedback has acted
C2_Witness ==
    /\ kind = "IIR"
    /\ NumB >= 1
    /\ NumA = 2
    /\ changes = 1
    /\ call = [op |-> "process", status |-> "ok"]
    /\ count = 3
    /\ obj.m_factors[NumB] # obj.m_factors[NumB + 1]
    /\ obj.m_outBuff[0] # Num(0)
    /\ obj.m_outBuff[1] # Num(0)
    /\ obj.m_outBuff[0] # obj.m_outBuff[1]

(***************************************************************************)
(* C3                                                                      *)
(***************************************************************************)
\* C3: in every state of a filter, processing a sequence in two consecutive
\* process calls, split at any point into two non-empty chunks, gives the
\* same output samples and the same final filter state as one process call.
C3_StatePersists ==
    IsFilter =>
        \A s \in Chunks : \A k \in 1..(Len(s) - 1) :
            LET whole  == FilterProcess(obj, Ptr(s), Len(s))
                first  == FilterProcess(obj, Ptr(SubSeq(s, 1, k)), k)
                second == FilterProcess(first.obj, Ptr(SubSeq(s, k + 1, Len(s))), Len(s) - k)
            IN  /\ whole.status = "ok" /\ first.status = "ok" /\ second.status = "ok"
                /\ first.signal.at \o second.signal.at = whole.signal.at
                /\ second.obj = whole.obj

\* a filter with non-zero coefficients and history, after two successful
\* process calls in a row
C3_Witness ==
    /\ IsFilter
    /\ call = [op |-> "process", status |-> "ok"]
    /\ count >= 2
    /\ ~AllZero(obj.m_factors)
    /\ xs # <<>> /\ xs[Len(xs)] = Num(1)

(***************************************************************************)
(* C4                                                                      *)
(***************************************************************************)
\* a newly constructed FirFilter given coefficients c
FreshFir(c) == SetFactors(FirFilterCtor(Fill(Size, Num(1))), c)

\* C4: in every state of a FirFilter, reset() zeroes every history slot and
\* the head index and keeps the coefficient vector, and every input then
\* gives the outputs of a newly constructed FirFilter with these coefficients;
\* the state reached by reset() has zero history and head.
C4_FirReset ==
    kind = "FIR" =>
        LET r == FirReset(obj)
        IN  /\ AllZero(r.m_buffer)
            /\ r.m_head = 0
            /\ r.m_factors = obj.m_factors
            /\ \A s \in SeqsUpTo(MaxLen, Samples) \ {<<>>} :
                  FilterProcess(r, Ptr(s), Len(s)).signal
                      = FilterProcess(FreshFir(obj.m_factors), Ptr(s), Len(s)).signal
            /\ call.op = "reset" => AllZero(obj.m_buffer) /\ obj.m_head = 0

\* a FirFilter just reset that kept non-zero coefficients
C4_Witness ==
    /\ kind = "FIR"
    /\ call.op = "reset"
    /\ Size >= 2
    /\ ~AllZero(obj.m_factors)
    /\ obj.m_factors[0] # obj.m_factors[1]

(***************************************************************************)
(* C5                                                                      *)
(***************************************************************************)
\* C5: reset() of an IirFilter zeroes both histories and the coefficient
\* vector, and in every state reached from a reset() (or from construction)
\* before setCoefficients or setFactors is called, the coefficients are zero
\* and a process call on any input writes all-zero output.
C5_IirResetZeroes ==
    kind = "IIR" =>
        /\ LET r == IirReset(obj)
           IN  AllZero(r.m_inBuff) /\ AllZero(r.m_outBuff) /\ AllZero(r.m_factors)
        /\ changes = 0 =>
              /\ AllZero(obj.m_factors)
              /\ \A b \in Chunks :
                    LET r == FilterProcess(obj, Ptr(b), Len(b))
                    IN  r.status = "ok" /\ \A j \in 1..Len(b) : r.signal.at[j] = Num(0)

\* an IirFilter that was configured, processed samples, was reset and has
\* processed non-zero samples since, without new coefficients
C5_Witness ==
    /\ kind = "IIR"
    /\ changes = 0
    /\ count >= 2
    /\ call = [op |-> "process", status |-> "ok"]
    /\ obj.m_inBuff[0] = Num(1)

(***************************************************************************)
(* C6                                                                      *)
(***************************************************************************)
\* C6: in every state of a filter, process(buffer, length) fails with
\* invalid_argument exactly when buffer is null or length is 0, a failing call
\* changes neither the buffer nor the filter, and every other call succeeds
\* and replaces each of the length samples by its filtered value.
C6_FilterProcessArguments ==
    IsFilter =>
        \A a \in ProcessArgs(Inputs) :
            LET r     == FilterProcess(obj, a.signal, a.length)
                fails == a.signal = NULL \/ a.length = 0
                run   == RunSamples(obj, a.signal.at, <<>>)
            IN  /\ r.status = (IF fails THEN "invalid_argument" ELSE "ok")
                /\ fails => r.obj = obj /\ r.signal = a.signal
                /\ ~fails =>
                      /\ Len(r.signal.at) = a.length
                      /\ r.signal.at = run.out
                      /\ r.obj = run.obj

\* a failed process call on a filter that holds coefficients and history
C6_Witness ==
    /\ IsFilter
    /\ call = [op |-> "process", status |-> "invalid_argument"]
    /\ count >= 1
    /\ ~AllZero(obj.m_factors)
    /\ xs[Len(xs)] = Num(1)

(***************************************************************************)
(* C7                                                                      *)
(***************************************************************************)
\* C7: in every state of a Window, process(buffer, length) fails with
\* invalid_argument whenever buffer is null or length differs from Size,
\* shorter or longer, and a failing call changes no sample and no coefficient.
C7_WindowProcessArguments ==
    kind = "Window" =>
        \A a \in ProcessArgs(WindowInputs) :
            LET r == WindowProcess(obj, a.signal, a.length)
            IN  (a.signal = NULL \/ a.length # Size) =>
                    /\ r.status = "invalid_argument"
                    /\ r.signal = a.signal
                    /\ r.obj = obj

\* a failed process call on a Window with two different coefficients
C7_Witness ==
    /\ kind = "Window"
    /\ call = [op |-> "process", status |-> "invalid_argument"]
    /\ Size >= 2
    /\ obj.m_factors[0] # obj.m_factors[1]

(***************************************************************************)
(* C8                                                                      *)
(***************************************************************************)
\* C8: in every state of a filter and for every input sequence, the container
\* form process(container) and the raw form process(pointer, length) give the
\* same output samples and the same final filter state.
C8_ContainerEqualsRaw ==
    IsFilter =>
        \A s \in Inputs :
            LET c == FilterProcessContainer(obj, s)
                r == FilterProcess(obj, Ptr(s), Len(s))
            IN  /\ c.signal = r.signal
                /\ c.obj = r.obj

\* a filter with coefficients and history after a container-form call
C8_Witness ==
    /\ IsFilter
    /\ call = [op |-> "processContainer", status |-> "ok"]
    /\ count >= 2
    /\ ~AllZero(obj.m_factors)
    /\ xs[Len(xs)] = Num(1)

(***************************************************************************)
(* C9                                                                      *)
(***************************************************************************)
\* C9: in every state of a Window, process on a buffer of Size samples
\* succeeds, replaces sample i by sample i times coefficient i and keeps the
\* coefficients; after setupRectangular(), and on a newly constructed Window,
\* process leaves every buffer as it was.
C9_WindowScales ==
    kind = "Window" =>
        \A b \in [1..Size -> Samples \cup {Num(-2)}] :
            LET r == WindowProcess(obj, Ptr(b), Size)
            IN  /\ r.status = "ok"
                /\ \A i \in 0..(Size - 1) : r.signal.at[i + 1] = Mul(b[i + 1], obj.m_factors[i])
                /\ r.obj = obj
                /\ WindowProcess(WindowSetupRectangular(obj), Ptr(b), Size).signal = Ptr(b)
                /\ WindowProcess(WindowCtor, Ptr(b), Size).signal = Ptr(b)
                /\ call.op \in {"construct", "setupRectangular"} => r.signal = Ptr(b)

\* a successful process call on a Window with two different coefficients
C9_Witness ==
    /\ kind = "Window"
    /\ call = [op |-> "process", status |-> "ok"]
    /\ Size >= 2
    /\ obj.m_factors[0] # obj.m_factors[1]

(***************************************************************************)
(* C10                                                                     *)
(***************************************************************************)
\* the cutoffs strictly between 0 and 0.5
ValidFreqs == {k \in FreqArgs : 0 < Freq(k) /\ 2 * Freq(k) < Scale}

\* the coefficients setupLowPass(k / FreqDen) leaves in the current object
LowPassOf(k) == FirSetupLowPass(obj, k).obj.m_factors

\* low-pass(kHigh) minus low-pass(kLow), elementwise
BandDifference(kLow, kHigh) ==
    [i \in 0..(Size - 1) |-> LowPassOf(kHigh)[i] - LowPassOf(kLow)[i]]

\* C10: in every state of a FirFilter, whatever its coefficients, and for
\* cutoffs 0 < fLow < fHigh < 0.5, setupBandPass(fLow, fHigh) leaves
\* coefficient i equal to that of setupLowPass(fHigh) minus that of
\* setupLowPass(fLow); the state after a successful setupBandPass holds such
\* a difference.
C10_BandPassIsDifference ==
    kind = "FIR" =>
        /\ \A kLow \in ValidFreqs, kHigh \in ValidFreqs :
              kLow < kHigh =>
                  LET r == FirSetupBandPass(obj, kLow, kHigh)
                  IN  /\ r.status = "ok"
                      /\ r.obj.m_factors = BandDifference(kLow, kHigh)
        /\ call = [op |-> "setupBandPass", status |-> "ok"] =>
              \E kLow \in ValidFreqs, kHigh \in ValidFreqs :
                  kLow < kHigh /\ obj.m_factors = BandDifference(kLow, kHigh)

\* a FirFilter of three taps whose earlier coefficients a successful
\* setupBandPass replaced by a non-zero difference
C10_Witness ==
    /\ kind = "FIR"
    /\ Size = 3
    /\ changes = 2
    /\ call = [op |-> "setupBandPass", status |-> "ok"]
    /\ obj.m_factors[1] > Num(0)
    /\ obj.m_factors[0] < Num(0)

(***************************************************************************)
(* C11                                                                     *)
(***************************************************************************)
\* the unit impulse at tap c: 1 at c and 0 elsewhere
ImpulseAt(c) == [i \in 0..(Size - 1) |-> IF i = c THEN Num(1) ELSE Num(0)]

\* a and b add up elementwise to the unit impulse at tap c
Complementary(a, b, c) == \A i \in 0..(Size - 1) : a[i] + b[i] = ImpulseAt(c)[i]

\* C11: in every state of a FirFilter of any Size and for every valid cutoff,
\* setupHighPass leaves at each tap other than c = floor((Size-1)/2) the
\* negated low-pass coefficient and at c one minus the low-pass coefficient,
\* so low-pass plus high-pass is the unit impulse at c; the state after a
\* successful setupHighPass holds such a complement.
C11_HighPassComplementsLowPass ==
    kind = "FIR" =>
        LET c == (Size - 1) \div 2
        IN  /\ \A k \in ValidFreqs :
                  LET r == FirSetupHighPass(obj, k)
                  IN  /\ r.status = "ok"
                      /\ \A i \in 0..(Size - 1) :
                            r.obj.m_factors[i] =
                                IF i = c THEN Num(1) - LowPassOf(k)[i] ELSE -LowPassOf(k)[i]
                      /\ Complementary(LowPassOf(k), r.obj.m_factors, c)
            /\ call = [op |-> "setupHighPass", status |-> "ok"] =>
                  \E k \in ValidFreqs : Complementary(LowPassOf(k), obj.m_factors, c)

\* a FirFilter of even Size after a successful setupHighPass, whose two
\* middle taps differ
C11_Witness ==
    /\ kind = "FIR"
    /\ Size = 2
    /\ call = [op |-> "setupHighPass", status |-> "ok"]
    /\ obj.m_factors[0] > Num(0)
    /\ obj.m_factors[1] < Num(0)

(***************************************************************************)
(* C12                                                                     *)
(***************************************************************************)
\* the outcome of a design call is ok, or invalid_argument exactly when
\* `rejected` holds
Rejects(status, rejected) ==
    status = (IF rejected THEN "invalid_argument" ELSE "ok")

\* C12: in every state of a FirFilter, setupLowPass(f) and setupHighPass(f)
\* fail with invalid_argument exactly when f <= 0 or f >= 0.5, and
\* setupBandPass(fLow, fHigh) fails with invalid_argument exactly when
\* fLow >= fHigh or fLow <= 0 or fHigh >= 0.5; every other call succeeds.
C12_DesignRejectsInvalidCutoffs ==
    kind = "FIR" =>
        /\ \A k \in FreqArgs :
              LET rejected == Freq(k) <= 0 \/ 2 * Freq(k) >= Scale
              IN  /\ Rejects(FirSetupLowPass(obj, k).status, rejected)
                  /\ Rejects(FirSetupHighPass(obj, k).status, rejected)
        /\ \A kLow \in FreqArgs, kHigh \in FreqArgs :
              Rejects(FirSetupBandPass(obj, kLow, kHigh).status,
                      \/ Freq(kLow) >= Freq(kHigh)
                      \/ Freq(kLow) <= 0
                      \/ 2 * Freq(kHigh) >= Scale)
        /\ call.op \in {"setupLowPass", "setupHighPass", "setupBandPass"} =>
              call.status \in {"ok", "invalid_argument"}

\* a FirFilter whose design call was rejected after an earlier one succeeded
C12_Witness ==
    /\ kind = "FIR"
    /\ changes = 2
    /\ call = [op |-> "setupHighPass", status |-> "invalid_argument"]
    /\ ~AllZero(obj.m_factors)

(***************************************************************************)
(* C13                                                                     *)
(***************************************************************************)
\* the histories of a filter are all zero, and the head of a FirFilter is 0
HistoryZero(f) ==
    /\ kind = "FIR" => AllZero(f.m_buffer) /\ f.m_head = 0
    /\ kind = "IIR" => AllZero(f.m_inBuff) /\ AllZero(f.m_outBuff)

\* C13 as stated: every newly default-constructed processor, Window
\* included, has an all-zero coefficient vector, and a filter has all-zero
\* histories and head index 0.
C13_ConstructedAllZero ==
    call.op = "construct" =>
        /\ AllZero(obj.m_factors)
        /\ IsFilter => HistoryZero(obj)

\* C13, amended: every newly default-constructed FirFilter and IirFilter has
\* an all-zero coefficient vector and all-zero histories (FIR head index 0),
\* and every newly default-constructed Window has all coefficients equal to 1.
C13_ConstructedState ==
    call.op = "construct" =>
        /\ IsFilter => AllZero(obj.m_factors) /\ HistoryZero(obj)
        /\ kind = "Window" => \A i \in 0..(Size - 1) : obj.m_factors[i] = Num(1)

\* a newly constructed Window of several coefficients
C13_Witness ==
    /\ kind = "Window"
    /\ call.op = "construct"
    /\ Size = 3
    /\ obj.m_factors[2] = Num(1)

(***************************************************************************)
(* C14                                                                     *)
(***************************************************************************)
\* the values a history slot or a coefficient may be compared against
Values == Samples \cup CoefVals

\* the arrays that differ from array a in at most one slot
OneSlotChanged(a) == {[a EXCEPT ![i] = v] : i \in DOMAIN a, v \in Values}

\* the filters that differ from f in at most one member: one coefficient, one
\* history slot, or the head index
Variants(f) ==
    {[f EXCEPT !.m_factors = a] : a \in OneSlotChanged(f.m_factors)}
        \cup (IF kind = "FIR"
              THEN {[f EXCEPT !.m_buffer = a] : a \in OneSlotChanged(f.m_buffer)}
                       \cup {[f EXCEPT !.m_head = h] : h \in 0..(Size - 1)}
              ELSE {[f EXCEPT !.m_inBuff = a] : a \in OneSlotChanged(f.m_inBuff)}
                       \cup {[f EXCEPT !.m_outBuff = a] : a \in OneSlotChanged(f.m_outBuff)})

\* two filters hold the same coefficients and the same history
SameState(f, g) ==
    /\ f.m_factors = g.m_factors
    /\ kind = "FIR" => f.m_buffer = g.m_buffer /\ f.m_head = g.m_head
    /\ kind = "IIR" => f.m_inBuff = g.m_inBuff /\ f.m_outBuff = g.m_outBuff

\* the source and its copy as two objects, and an operation on one of them
\* leaving object g in its place
Pair(src, cpy) == [source |-> src, copy |-> cpy]

OperateOn(pair, which, g) == [pair EXCEPT ![which] = g]

\* the objects that processing a sample, reset or reconfiguration of f may
\* leave
Operated(f) ==
    {ProcessSample(f, input).obj : input \in Samples}
        \cup {IF kind = "FIR" THEN FirReset(f) ELSE IirReset(f)}
        \cup {SetFactors(f, a) : a \in Array(Size, CoefVals)}

\* C14: in every state of a filter, its copy compares equal to it; the same
\* input given to both yields the same outputs and leaves them equal;
\* processing, reset or reconfiguration of one leaves the other as it was; and
\* a filter compares equal to another only if coefficients, history and (FIR)
\* head index all coincide.
C14_CopyDuplicatesState ==
    IsFilter =>
        LET c == Copy(obj)
        IN  /\ Equals(c, obj) /\ Equals(obj, c)
            /\ SameState(c, obj)
            /\ \A s \in Inputs :
                  LET a == FilterProcessContainer(obj, s)
                      b == FilterProcessContainer(c, s)
                  IN  a.signal = b.signal /\ Equals(a.obj, b.obj)
            /\ \A g \in Operated(c) :
                  /\ OperateOn(Pair(obj, c), "copy", g).source = obj
                  /\ OperateOn(Pair(obj, c), "source", g).copy = c
            /\ \A g \in Variants(obj) :
                  /\ Equals(obj, g) => SameState(obj, g)
                  /\ Equals(g, c) <=> SameState(g, obj)

\* a copy of a FirFilter whose head has advanced and whose history and
\* coefficients are not zero
C14_Witness ==
    /\ kind = "FIR"
    /\ call.op = "copy"
    /\ Size = 3
    /\ obj.m_head = 2
    /\ obj.m_buffer[1] = Num(1)
    /\ ~AllZero(obj.m_factors)

(***************************************************************************)
(* C15                                                                     *)
(***************************************************************************)
\* C15: in every state of an IirFilter with NumA = 0 and NumB >= 1, every
\* process call runs to its end, processing a sample accesses the zero-length
\* output history at no index (the loop counter that starts at NumA - 1
\* drives no access), and each output is the feedforward sum alone.
C15_NoFeedbackSkipsHistory ==
    (kind = "IIR" /\ NumA = 0 /\ NumB >= 1) =>
        /\ call.status # "crash"
        /\ count > 0 => IirShiftOutOfBounds(NumA, SizeT(NumA - 1)) = -1
        /\ \A b \in Chunks :
              LET r == FilterProcess(obj, Ptr(b), Len(b))
              IN  \A j \in 1..Len(b) :
                      r.signal.at[j] =
                          Convolve(obj.m_factors, 0, 0..(NumB - 1), xs \o b, Len(xs) + j)

\* an IirFilter with NumA = 0 and non-zero coefficients that has processed
\* samples in a build where the stray accesses did no harm
C15_Witness ==
    /\ kind = "IIR"
    /\ NumA = 0
    /\ NumB = 2
    /\ call = [op |-> "process", status |-> "ok"]
    /\ count >= 2
    /\ ~AllZero(obj.m_factors)
    /\ obj.m_inBuff[1] = Num(1)

(***************************************************************************)
(* C16                                                                     *)
(***************************************************************************)
\* a design call with result r either succeeded or left object f as it was
FailsUnchanged(f, r) == r.status = "invalid_argument" => r.obj = f

\* C16: in every state of a FirFilter, a setupLowPass, setupHighPass or
\* setupBandPass call that fails with invalid_argument, setupBandPass with
\* fLow <= 0 < fHigh < 0.5 included, leaves the coefficient vector, the
\* history buffer and the head index exactly as before the call.
C16_ValidationBeforeMutation ==
    kind = "FIR" =>
        /\ \A k \in FreqArgs :
              /\ FailsUnchanged(obj, FirSetupLowPass(obj, k))
              /\ FailsUnchanged(obj, FirSetupHighPass(obj, k))
        /\ \A kLow \in FreqArgs, kHigh \in FreqArgs :
              FailsUnchanged(obj, FirSetupBandPass(obj, kLow, kHigh))

\* a FirFilter holding low-pass coefficients after its only design call, a
\* setupBandPass, failed
C16_Witness ==
    /\ kind = "FIR"
    /\ Size = 3
    /\ changes = 1
    /\ call = [op |-> "setupBandPass", status |-> "invalid_argument"]
    /\ \E k \in ValidFreqs : obj.m_factors = LowPassOf(k)

(***************************************************************************)
(* C17                                                                     *)
(***************************************************************************)
\* the history of a filter: buffer and head index, or the two histories
History(f) ==
    IF kind = "FIR" THEN <<f.m_buffer, f.m_head>> ELSE <<f.m_inBuff, f.m_outBuff>>

\* C17: in every state of a filter, setFactors, getFactors and, for a
\* FirFilter, setupLowPass, setupHighPass and setupBandPass (successful or
\* not), for an IirFilter setCoefficients, leave the history as it is;
\* getFactors also leaves the coefficients as they are, and getFactors after
\* setFactors(v) returns v; whatever was called since the last reset(), the
\* newest processed sample is still in the history.
C17_HistoryKept ==
    IsFilter =>
        /\ \A v \in Array(Size, CoefVals) :
              /\ History(SetFactors(obj, v)) = History(obj)
              /\ GetFactors(SetFactors(obj, v)).result = v
        /\ GetFactors(obj).obj = obj
        /\ GetFactors(obj).result = obj.m_factors
        /\ kind = "FIR" =>
              /\ \A k \in FreqArgs :
                    /\ History(FirSetupLowPass(obj, k).obj) = History(obj)
                    /\ History(FirSetupHighPass(obj, k).obj) = History(obj)
              /\ \A kLow \in FreqArgs, kHigh \in FreqArgs :
                    History(FirSetupBandPass(obj, kLow, kHigh).obj) = History(obj)
        /\ kind = "IIR" =>
              \A bFactors \in Array(NumB, CoefVals), aFactors \in Array(NumA, CoefVals) :
                  History(IirSetCoefficients(obj, bFactors, aFactors)) = History(obj)
        /\ (call.op \notin {"construct", "reset"} /\ xs # <<>>) =>
              xs[Len(xs)] = (IF kind = "FIR"
                             THEN obj.m_buffer[(obj.m_head + Size - 1) % Size]
                             ELSE obj.m_inBuff[0])

\* a FirFilter whose head has advanced and whose history is not zero, right
\* after setFactors
C17_Witness ==
    /\ kind = "FIR"
    /\ Size = 3
    /\ call = [op |-> "setFactors", status |-> "ok"]
    /\ obj.m_head = 1
    /\ obj.m_buffer[0] = Num(1)
    /\ count = 1

(***************************************************************************)
(* C18                                                                     *)
(***************************************************************************)
\* C18: in every state of a FirFilter, Size = 1 included, the head index is
\* within 0..Size-1 and is the number of samples processed since the last
\* reset() modulo Size; processing one sample advances it by one modulo Size;
\* and every m_buffer and m_factors index used while a sample is processed is
\* within 0..Size-1.
C18_HeadInRange ==
    kind = "FIR" =>
        /\ obj.m_head \in 0..(Size - 1)
        /\ obj.m_head = count % Size
        /\ \A input \in Samples :
              FirProcessSample(obj, input).obj.m_head = (obj.m_head + 1) % Size
        /\ \A p \in FirIndices(0, obj.m_head, {<<obj.m_head, 0>>}) :
              p[1] \in 0..(Size - 1) /\ p[2] \in 0..(Size - 1)
        /\ Cardinality(FirIndices(0, obj.m_head, {})) = Size

\* a FirFilter of Size 1 that has processed several samples and was copied
C18_Witness ==
    /\ kind = "FIR"
    /\ Size = 1
    /\ call.op = "copy"
    /\ count >= 2
    /\ obj.m_head = 0
    /\ obj.m_buffer[0] = Num(1)

=============================================================================
